---- MODULE Spec2Model ----
(***************************************************************************)
(* The finality-triggered summarizer of chaind                             *)
(* (services/summarizer/standard): the coordinator OnFinalityUpdated with  *)
(* its single-permit gate, the epoch, block and validator rollup stages,   *)
(* the day aggregator and the pruner, over the persisted metadata record.  *)
(***************************************************************************)
EXTENDS Integers, Sequences, FiniteSets, TLC

(* ------------------------------ bounds -------------------------------- *)

\* Number of concurrent callers of OnFinalityUpdated.
NumHandlers == 2
\* Highest finalized epoch a trigger carries.
MaxFinalizedEpoch == 6
\* Highest finalized epoch a trigger carries when callers are concurrent.
MaxConcurrentEpoch == 2
\* Highest epoch for which the chain data provider holds any data.
MaxDataEpoch == 6
\* Highest configured maxDaysPerRun.
MaxDaysPerRun == 1
\* Highest configured retention window, in epochs.
MaxRetention == 1

(* --------------------------- chain clock ------------------------------ *)

\* phase0.Epoch is a uint64; the model keeps the wrap-around at a width
\* that the bounded epochs never reach by counting up.
EpochModulus == 2 ^ 6

SecondsPerDay == 86400
SlotDuration == 12
SlotsPerEpoch == 3600

\* 2020-12-01T00:00:00Z and 2020-12-01T12:00:00Z.
GenesisTimes == {1606780800, 1606824000}

\* md.LastValidatorDay before any day has been summarized.
NotStarted == -1

\* s.validatorEpochRetention == nil
NoRetention == -1

Handlers == 1 .. NumHandlers

VARIABLES
    md,              \* the persisted metadata (checkpoint) record
    activitySem,     \* permits of s.activitySem currently held
    cfg,             \* the service's configuration, fixed at construction
    pc,              \* per call: where it is in OnFinalityUpdated
    finalizedEpoch,  \* per call: the argument of OnFinalityUpdated
    acquired,        \* per call: the local `acquired`
    stages,          \* per call: the stage calls made so far, in order
    result,          \* per call: how the call ended
    emitted,         \* per call: the values passed to monitorEpochProcessed
    validatorEpochRows \* epochs that have Validator-Epoch Summary rows

vars == << md, activitySem, cfg, pc, finalizedEpoch, acquired, stages, result,
           emitted, validatorEpochRows >>

(* ------------------------ unsigned arithmetic ------------------------- *)

Add64(a, b) == (a + b) % EpochModulus
Sub64(a, b) == (a - b + EpochModulus) % EpochModulus
Mul64(a, b) == (a * b) % EpochModulus

Min(a, b) == IF a <= b THEN a ELSE b

(* ---------------------------- chain time ------------------------------ *)

StartOfEpoch(epoch) == cfg.genesisTime + epoch * SlotsPerEpoch * SlotDuration

\* time.Date(y, m, d, 0, 0, 0, 0, time.UTC) of a UTC instant.
StartOfDay(t) == t - (t % SecondsPerDay)

\* t.AddDate(0, 0, n) for a UTC instant.
AddDays(t, n) == t + n * SecondsPerDay

epochsPerDay == (SecondsPerDay \div SlotDuration) \div SlotsPerEpoch

(* ------------------------------ the gate ------------------------------ *)

\* semaphore.NewWeighted(1)
Permits == 1

\* A gate that admits a caller while its one permit is out.
TryAcquireOffByOne == activitySem <= Permits

\* s.activitySem.TryAcquire(1): succeeds iff a permit is free; never blocks.
TryAcquire == activitySem + 1 <= Permits

\* A return path that leaves the permit held.
ReleaseForgotten == activitySem

\* s.activitySem.Release(1)
Release == activitySem - 1

(* ------------------------- per-unit persistence ----------------------- *)

\* Each per-unit computation persists its summary and advances the
\* checkpoint field its stage owns.
summarizeEpoch(m, epoch) == [m EXCEPT !.LastEpoch = epoch]

summarizeBlocksInEpoch(m, epoch) == [m EXCEPT !.LastBlockEpoch = epoch]

summarizeValidatorsInEpoch(m, epoch) == [m EXCEPT !.LastValidatorEpoch = epoch]

summarizeValidatorsInDay(m, timestamp) == [m EXCEPT !.LastValidatorDay = timestamp]

\* The rows left after deleting those older than the retention window
\* relative to summaryEpoch.
pruneValidatorEpochs(rows, summaryEpoch) ==
    IF cfg.validatorEpochRetention = NoRetention
    THEN rows
    ELSE { e \in rows : e + cfg.validatorEpochRetention >= summaryEpoch }

(* --------------------------- stage bounds ----------------------------- *)

maxEpochsPerRun == Mul64(cfg.maxDaysPerRun, epochsPerDay)

\* The loop `for epoch := first; epoch <= last; epoch++`: its iterations.
Iterations(first, last) == IF first <= last THEN last - first + 1 ELSE 0

\* A resume point that steps back instead of forward.
summarizeEpochsFirstBackwards(m) ==
    IF m.LastEpoch # 0 THEN Sub64(m.LastEpoch, 1) ELSE m.LastEpoch

summarizeEpochsFirst(m) ==
    IF m.LastEpoch # 0 THEN Add64(m.LastEpoch, 1) ELSE m.LastEpoch

\* The per-run limit left out.
summarizeEpochsLastUnclamped(m, summaryEpoch) == summaryEpoch

\* The per-run limit applied whether or not rows are pruned.
summarizeEpochsLastAlwaysClamped(m, summaryEpoch) ==
    LET lastEpoch == summarizeEpochsFirst(m)
    IN  IF /\ maxEpochsPerRun > 0
           /\ Sub64(summaryEpoch, lastEpoch) > maxEpochsPerRun
        THEN Add64(lastEpoch, maxEpochsPerRun)
        ELSE summaryEpoch

summarizeEpochsLast(m, summaryEpoch) ==
    LET lastEpoch == summarizeEpochsFirst(m)
    IN  IF /\ cfg.validatorEpochRetention # NoRetention
           /\ maxEpochsPerRun > 0
           /\ Sub64(summaryEpoch, lastEpoch) > maxEpochsPerRun
        THEN Add64(lastEpoch, maxEpochsPerRun)
        ELSE summaryEpoch

summarizeBlocksFirst(m) ==
    IF m.LastBlockEpoch # 0 THEN Add64(m.LastBlockEpoch, 1) ELSE m.LastBlockEpoch

summarizeBlocksLast(m, summaryEpoch) ==
    IF summaryEpoch > m.LastEpoch /\ m.LastEpoch # 0
    THEN m.LastEpoch
    ELSE summaryEpoch

summarizeValidatorsFirst(m) ==
    IF m.LastValidatorEpoch # 0
    THEN Add64(m.LastValidatorEpoch, 1)
    ELSE m.LastValidatorEpoch

summarizeValidatorsLast(m, summaryEpoch) ==
    LET truncated == IF summaryEpoch > m.LastEpoch /\ m.LastEpoch # 0
                     THEN m.LastEpoch
                     ELSE summaryEpoch
        lastValidatorEpoch == summarizeValidatorsFirst(m)
    IN  IF /\ cfg.validatorEpochRetention # NoRetention
           /\ maxEpochsPerRun > 0
           /\ Sub64(truncated, lastValidatorEpoch) > maxEpochsPerRun
        THEN Add64(lastValidatorEpoch, maxEpochsPerRun)
        ELSE truncated

\* epochSummariesTime.After(daySummariesTime.AddDate(0, 0, 1))
daysHaveUpdates(m) ==
    StartOfEpoch(m.LastValidatorEpoch) > AddDays(m.LastValidatorDay, 1)

summarizeValidatorDaysFirstAtGenesis(m) ==
    IF m.LastValidatorDay = NotStarted
    THEN cfg.genesisTime
    ELSE AddDays(m.LastValidatorDay, 1)

summarizeValidatorDaysFirst(m) ==
    IF m.LastValidatorDay = NotStarted
    THEN StartOfDay(cfg.genesisTime)
    ELSE AddDays(m.LastValidatorDay, 1)

summarizeValidatorDaysEndAtEpoch(m) == StartOfEpoch(m.LastValidatorEpoch)

summarizeValidatorDaysEndAtMidnight(m) ==
    AddDays(StartOfDay(StartOfEpoch(m.LastValidatorEpoch)), -1)

summarizeValidatorDaysEnd(m) == AddDays(StartOfEpoch(m.LastValidatorEpoch), -1)

\* The loop `for t := first; t.Before(end); t = t.AddDate(0, 0, 1)`.
RECURSIVE DayIterations(_, _)
DayIterations(timestamp, end) ==
    IF timestamp < end THEN 1 + DayIterations(AddDays(timestamp, 1), end) ELSE 0

(* ----------------------------- the loops ------------------------------ *)

\* The metadata after the first n iterations of a stage's loop succeeded.
RECURSIVE EpochsLoop(_, _, _)
EpochsLoop(m, epoch, n) ==
    IF n = 0 THEN m ELSE EpochsLoop(summarizeEpoch(m, epoch), Add64(epoch, 1), n - 1)

RECURSIVE BlocksLoop(_, _, _)
BlocksLoop(m, epoch, n) ==
    IF n = 0 THEN m
    ELSE BlocksLoop(summarizeBlocksInEpoch(m, epoch), Add64(epoch, 1), n - 1)

\* A loop whose writes are dropped when it does not reach its end.
ValidatorsLoopAllOrNothing(m, epoch, n) == m

RECURSIVE ValidatorsLoop(_, _, _)
ValidatorsLoop(m, epoch, n) ==
    IF n = 0 THEN m
    ELSE ValidatorsLoop(summarizeValidatorsInEpoch(m, epoch), Add64(epoch, 1), n - 1)

RECURSIVE DaysLoop(_, _, _)
DaysLoop(m, timestamp, n) ==
    IF n = 0 THEN m
    ELSE DaysLoop(summarizeValidatorsInDay(m, timestamp), AddDays(timestamp, 1), n - 1)

\* The number of leading iterations of an epoch loop that can succeed: the
\* chain data provider holds nothing beyond MaxDataEpoch.
Available(first, last) == Iterations(first, Min(last, MaxDataEpoch))

(* -------------------------- initial state ----------------------------- *)

\* epochSummaries, blockSummaries, validatorSummaries as configured.
Enabled == { << TRUE, TRUE, TRUE >>, << FALSE, TRUE, TRUE >>, << TRUE, FALSE, FALSE >> }

Configs ==
    [ enabled : Enabled,
      validatorEpochRetention : {NoRetention} \cup (1 .. MaxRetention),
      maxDaysPerRun : 0 .. MaxDaysPerRun,
      genesisTime : GenesisTimes ]

NoMetadata ==
    [ LastEpoch |-> 0, LastBlockEpoch |-> 0, LastValidatorEpoch |-> 0,
      LastValidatorDay |-> NotStarted, PeriodicValidatorRollups |-> FALSE ]

Init ==
    /\ cfg \in Configs
    /\ \E periodic \in BOOLEAN :
           md = [NoMetadata EXCEPT !.PeriodicValidatorRollups = periodic]
    /\ activitySem = 0
    /\ pc = [h \in Handlers |-> "idle"]
    /\ finalizedEpoch = [h \in Handlers |-> 0]
    /\ acquired = [h \in Handlers |-> FALSE]
    /\ stages = [h \in Handlers |-> << >>]
    /\ result = [h \in Handlers |-> "none"]
    /\ emitted = [h \in Handlers |-> {}]
    /\ validatorEpochRows = {}

(* ---------------------------- coordinator ----------------------------- *)

summaryEpochOf(h) == Sub64(finalizedEpoch[h], 1)

\* The record of one stage call: how many units it completed and how it ended.
Stage(name, count, outcome) ==
    [ stage |-> name, count |-> count, outcome |-> outcome ]

\* A coordinator that treats the insufficient-data halt as a failure.
StageReturnsHaltFails(h, rec, next) ==
    /\ stages' = [stages EXCEPT ![h] = Append(@, rec)]
    /\ IF rec.outcome \in {"error", "insufficient"}
       THEN pc' = [pc EXCEPT ![h] = "exit"] /\ result' = [result EXCEPT ![h] = "error"]
       ELSE pc' = [pc EXCEPT ![h] = next] /\ UNCHANGED result

\* A coordinator that logs a stage's error and carries on.
StageReturnsCarriesOn(h, rec, next) ==
    /\ stages' = [stages EXCEPT ![h] = Append(@, rec)]
    /\ pc' = [pc EXCEPT ![h] = next]
    /\ UNCHANGED result

\* A stage returned: on error the coordinator logs and returns, otherwise
\* it goes on to `next`.
StageReturns(h, rec, next) ==
    /\ stages' = [stages EXCEPT ![h] = Append(@, rec)]
    /\ IF rec.outcome = "error"
       THEN pc' = [pc EXCEPT ![h] = "exit"] /\ result' = [result EXCEPT ![h] = "error"]
       ELSE pc' = [pc EXCEPT ![h] = next] /\ UNCHANGED result

\* OnFinalityUpdated is called: the gate is tried, without blocking, and the
\* release is deferred only once the permit is held. A call that is turned
\* away never reads its argument.
OnFinalityUpdated(h, epoch) ==
    /\ pc[h] = "idle"
    /\ finalizedEpoch' = [finalizedEpoch EXCEPT ![h] = IF TryAcquire THEN epoch ELSE @]
    /\ IF TryAcquire
       THEN /\ activitySem' = activitySem + 1
            /\ acquired' = [acquired EXCEPT ![h] = TRUE]
            /\ pc' = [pc EXCEPT ![h] = "checkEpoch"]
            /\ UNCHANGED result
       ELSE /\ acquired' = [acquired EXCEPT ![h] = FALSE]
            /\ pc' = [pc EXCEPT ![h] = "exit"]
            /\ result' = [result EXCEPT ![h] = "dropped"]
            /\ UNCHANGED activitySem
    /\ UNCHANGED << md, cfg, stages, emitted, validatorEpochRows >>

CheckEpoch(h) ==
    /\ pc[h] = "checkEpoch"
    /\ IF finalizedEpoch[h] = 0
       THEN pc' = [pc EXCEPT ![h] = "exit"] /\ result' = [result EXCEPT ![h] = "epoch0"]
       ELSE pc' = [pc EXCEPT ![h] = "summarizeEpochs"] /\ UNCHANGED result
    /\ UNCHANGED << md, activitySem, cfg, finalizedEpoch, acquired, stages,
                    emitted, validatorEpochRows >>

\* The outcome of a loop of `total` iterations whose first n succeeded.
Outcomes(n, total, halts) == IF n = total THEN {"ok"} ELSE halts

summarizeEpochs(h) ==
    /\ pc[h] = "summarizeEpochs"
    /\ \/ /\ ~cfg.enabled[1]
          /\ StageReturns(h, Stage("epochs", 0, "disabled"), "summarizeBlocks")
          /\ UNCHANGED md
       \/ /\ cfg.enabled[1]
          /\ StageReturns(h, Stage("epochs", 0, "error"), "summarizeBlocks")
          /\ UNCHANGED md
       \/ /\ cfg.enabled[1]
          /\ LET first == summarizeEpochsFirst(md)
                 last == summarizeEpochsLast(md, summaryEpochOf(h))
             IN  \E n \in 0 .. Available(first, last) :
                 \E outcome \in Outcomes(n, Iterations(first, last),
                                         {"insufficient", "error"}) :
                     /\ md' = EpochsLoop(md, first, n)
                     /\ StageReturns(h, Stage("epochs", n, outcome),
                                     "summarizeBlocks")
    /\ UNCHANGED << activitySem, cfg, finalizedEpoch, acquired, emitted, validatorEpochRows >>

summarizeBlocks(h) ==
    /\ pc[h] = "summarizeBlocks"
    /\ \/ /\ ~cfg.enabled[2]
          /\ StageReturns(h, Stage("blocks", 0, "disabled"), "summarizeValidators")
          /\ UNCHANGED md
       \/ /\ cfg.enabled[2]
          /\ StageReturns(h, Stage("blocks", 0, "error"), "summarizeValidators")
          /\ UNCHANGED md
       \/ /\ cfg.enabled[2]
          /\ LET first == summarizeBlocksFirst(md)
                 last == summarizeBlocksLast(md, summaryEpochOf(h))
             IN  \E n \in 0 .. Available(first, last) :
                 \E outcome \in Outcomes(n, Iterations(first, last), {"error"}) :
                     /\ md' = BlocksLoop(md, first, n)
                     /\ StageReturns(h, Stage("blocks", n, outcome),
                                     "summarizeValidators")
    /\ UNCHANGED << activitySem, cfg, finalizedEpoch, acquired, emitted, validatorEpochRows >>

summarizeValidators(h) ==
    /\ pc[h] = "summarizeValidators"
    /\ \/ /\ ~cfg.enabled[3]
          /\ StageReturns(h, Stage("validators", 0, "disabled"), "getMetadata")
          /\ UNCHANGED << md, validatorEpochRows >>
       \/ /\ cfg.enabled[3]
          /\ StageReturns(h, Stage("validators", 0, "error"), "getMetadata")
          /\ UNCHANGED << md, validatorEpochRows >>
       \/ /\ cfg.enabled[3]
          /\ LET first == summarizeValidatorsFirst(md)
                 last == summarizeValidatorsLast(md, summaryEpochOf(h))
             IN  \E n \in 0 .. Available(first, last) :
                 \E outcome \in Outcomes(n, Iterations(first, last), {"error"}) :
                     /\ md' = ValidatorsLoop(md, first, n)
                     /\ validatorEpochRows' =
                            validatorEpochRows \cup (first .. first + n - 1)
                     /\ StageReturns(h, Stage("validators", n, outcome),
                                     "getMetadata")
    /\ UNCHANGED << activitySem, cfg, finalizedEpoch, acquired, emitted >>

afterMetadataAlwaysRollsUp(m) == "summarizeValidatorDays"

\* The day aggregator and the pruner run only when the metadata the
\* coordinator read asks for periodic validator rollups.
afterMetadata(m) ==
    IF m.PeriodicValidatorRollups THEN "summarizeValidatorDays" ELSE "monitorEpochProcessed"

\* The coordinator's own read of the metadata. A failed read is logged and
\* the coordinator carries on with whatever record the read handed back:
\* none (the dereference panics) or an empty one.
getMetadata(h) ==
    /\ pc[h] = "getMetadata"
    /\ \/ /\ stages' = [stages EXCEPT ![h] = Append(@, Stage("metadata", 0, "ok"))]
          /\ pc' = [pc EXCEPT ![h] = afterMetadata(md)]
          /\ UNCHANGED result
       \/ /\ stages' = [stages EXCEPT ![h] = Append(@, Stage("metadata", 0, "failed"))]
          /\ pc' = [pc EXCEPT ![h] = "exit"]
          /\ result' = [result EXCEPT ![h] = "panic"]
       \/ /\ stages' = [stages EXCEPT ![h] = Append(@, Stage("metadata", 0, "failed"))]
          /\ pc' = [pc EXCEPT ![h] = afterMetadata(NoMetadata)]
          /\ UNCHANGED result
    /\ UNCHANGED << md, activitySem, cfg, finalizedEpoch, acquired, emitted, validatorEpochRows >>

summarizeValidatorDays(h) ==
    /\ pc[h] = "summarizeValidatorDays"
    /\ \/ /\ StageReturns(h, Stage("days", 0, "error"), "prune")
          /\ UNCHANGED md
       \/ /\ ~daysHaveUpdates(md)
          /\ StageReturns(h, Stage("days", 0, "ok"), "prune")
          /\ UNCHANGED md
       \/ /\ daysHaveUpdates(md)
          /\ LET first == summarizeValidatorDaysFirst(md)
                 total == DayIterations(first, summarizeValidatorDaysEnd(md))
             IN  \E n \in 0 .. total :
                 \E outcome \in Outcomes(n, total, {"error"}) :
                     /\ md' = DaysLoop(md, first, n)
                     /\ StageReturns(h, Stage("days", n, outcome), "prune")
    /\ UNCHANGED << activitySem, cfg, finalizedEpoch, acquired, emitted, validatorEpochRows >>

prune(h) ==
    /\ pc[h] = "prune"
    /\ \/ /\ StageReturns(h, Stage("prune", 0, "error"), "monitorEpochProcessed")
          /\ UNCHANGED validatorEpochRows
       \/ LET kept == pruneValidatorEpochs(validatorEpochRows, summaryEpochOf(h))
          IN  /\ validatorEpochRows' = kept
              /\ StageReturns(h, Stage("prune",
                                       Cardinality(validatorEpochRows \ kept), "ok"),
                              "monitorEpochProcessed")
    /\ UNCHANGED << md, activitySem, cfg, finalizedEpoch, acquired, emitted >>

monitorEpochProcessed(h) ==
    /\ pc[h] = "monitorEpochProcessed"
    /\ emitted' = [emitted EXCEPT ![h] = @ \cup {finalizedEpoch[h]}]
    /\ pc' = [pc EXCEPT ![h] = "exit"]
    /\ result' = [result EXCEPT ![h] = "complete"]
    /\ UNCHANGED << md, activitySem, cfg, finalizedEpoch, acquired, stages,
                    validatorEpochRows >>

\* The call returns: the deferred Release runs, if it was registered, and
\* the call's frame is gone.
Exit(h) ==
    /\ pc[h] = "exit"
    /\ activitySem' = IF acquired[h] THEN Release ELSE activitySem
    /\ pc' = [pc EXCEPT ![h] = "idle"]
    /\ finalizedEpoch' = [finalizedEpoch EXCEPT ![h] = 0]
    /\ acquired' = [acquired EXCEPT ![h] = FALSE]
    /\ stages' = [stages EXCEPT ![h] = << >>]
    /\ result' = [result EXCEPT ![h] = "none"]
    /\ emitted' = [emitted EXCEPT ![h] = {}]
    /\ UNCHANGED << md, cfg, validatorEpochRows >>

Step(h, highest) ==
    \/ \E epoch \in 0 .. highest : OnFinalityUpdated(h, epoch)
    \/ CheckEpoch(h)
    \/ summarizeEpochs(h)
    \/ summarizeBlocks(h)
    \/ summarizeValidators(h)
    \/ getMetadata(h)
    \/ summarizeValidatorDays(h)
    \/ prune(h)
    \/ monitorEpochProcessed(h)
    \/ Exit(h)

\* Triggers issued one after another by a single caller, under every
\* configuration.
Next == Step(1, MaxFinalizedEpoch)

Spec == Init /\ [][Next]_vars

\* Triggers issued by concurrent callers.
ConcurrentConfigs ==
    { c \in Configs : /\ c.enabled = << TRUE, TRUE, TRUE >>
                      /\ c.maxDaysPerRun = MaxDaysPerRun
                      /\ c.genesisTime = 1606824000 }

InitConcurrent == Init /\ cfg \in ConcurrentConfigs

NextConcurrent == \E h \in Handlers : Step(h, MaxConcurrentEpoch)

SpecConcurrent == InitConcurrent /\ [][NextConcurrent]_vars

(* ============================== claims ================================ *)

Last(seq) == seq[Len(seq)]

\* C1 - Gate exclusivity: at most one call is past the gate at a time; a
\* call that has not got the gate has executed no stage and emitted no
\* signal, and a call that arrives while another holds the gate returns
\* having changed nothing: it is turned away, and all it then does is return.
C1_GateExclusivity ==
    /\ [](/\ Cardinality({ h \in Handlers : acquired[h] }) <= 1
          /\ \A h \in Handlers :
                 ~acquired[h] => /\ pc[h] \in {"idle", "exit"}
                                 /\ stages[h] = << >>
                                 /\ emitted[h] = {})
    /\ [][\A h \in Handlers :
            /\ ( /\ pc[h] = "idle"
                 /\ pc'[h] # "idle"
                 /\ \E g \in Handlers \ {h} : acquired[g] )
               => /\ pc'[h] = "exit"
                  /\ result'[h] = "dropped"
                  /\ ~acquired'[h]
                  /\ md' = md
                  /\ validatorEpochRows' = validatorEpochRows
                  /\ activitySem' = activitySem
            /\ ( /\ pc[h] = "exit"
                 /\ result[h] = "dropped"
                 /\ pc'[h] # pc[h] )
               => /\ pc'[h] = "idle"
                  /\ md' = md
                  /\ activitySem' = activitySem
                  /\ stages'[h] = << >> ]_vars

\* A second call was turned away while the first is in the middle of its stages.
C1_Witness ==
    \E h, g \in Handlers :
        /\ h # g
        /\ acquired[h]
        /\ pc[h] = "summarizeValidators"
        /\ Len(stages[h]) = 2
        /\ pc[g] = "exit"
        /\ result[g] = "dropped"

\* C2 - No prune before rollup: the pruner never deletes a Validator-Epoch
\* row whose UTC day is later than lastValidatorDay.
C2_NoPruneBeforeRollup ==
    [][\A e \in validatorEpochRows \ validatorEpochRows' :
           StartOfDay(StartOfEpoch(e)) <= md.LastValidatorDay]_vars

\* C3 - Never past the finalized tip: a pass triggered with finalizedEpoch
\* F >= 1 never has the epoch, block or validator stage summarize an epoch
\* greater than F - 1. (A stage that summarized something leaves its
\* checkpoint field at the last epoch it summarized.)
C3_NeverPastFinalizedTip ==
    \A h \in Handlers :
        \A i \in 1 .. Len(stages[h]) :
            stages[h][i].count > 0 =>
                /\ stages[h][i].stage = "epochs"
                       => md.LastEpoch <= finalizedEpoch[h] - 1
                /\ stages[h][i].stage = "blocks"
                       => md.LastBlockEpoch <= finalizedEpoch[h] - 1
                /\ stages[h][i].stage = "validators"
                       => md.LastValidatorEpoch <= finalizedEpoch[h] - 1

\* C4 - Dependency bound: after every completed pass, lastBlockEpoch <=
\* lastEpoch and lastValidatorEpoch <= lastEpoch whenever lastEpoch # 0.
C4_DependencyBound ==
    \A h \in Handlers :
        (pc[h] = "exit" /\ acquired[h] /\ md.LastEpoch # 0) =>
            /\ md.LastBlockEpoch <= md.LastEpoch
            /\ md.LastValidatorEpoch <= md.LastEpoch

\* C5 - Monotonicity: lastEpoch, lastBlockEpoch, lastValidatorEpoch and
\* lastValidatorDay never decrease from one state to the next.
C5_Monotonicity ==
    [][/\ md'.LastEpoch >= md.LastEpoch
       /\ md'.LastBlockEpoch >= md.LastBlockEpoch
       /\ md'.LastValidatorEpoch >= md.LastValidatorEpoch
       /\ md'.LastValidatorDay >= md.LastValidatorDay]_vars

\* A pass triggered with a smaller finalizedEpoch than progress already made
\* has run its rollup stages, after days have been summarized too.
C5_Witness ==
    \E h \in Handlers :
        /\ pc[h] = "getMetadata"
        /\ finalizedEpoch[h] >= 1
        /\ finalizedEpoch[h] - 1 < md.LastBlockEpoch
        /\ md.LastEpoch > 0
        /\ md.LastValidatorEpoch > 0
        /\ md.LastValidatorDay # NotStarted

\* C6 - Batch bound: with a retention policy and maxEpochsPerRun = M > 0, an
\* epoch stage call that resumes at `start`, is asked for a target more than
\* M epochs beyond `start` and meets no insufficient data or error ends with
\* lastEpoch = start + M, having summarized start .. start + M and no more;
\* the validator stage is bound the same way from its own resume point.
C6_BatchBound ==
    [][\A h \in Handlers :
         LET M == cfg.maxDaysPerRun * epochsPerDay
             target == finalizedEpoch[h] - 1
             start == IF md.LastEpoch = 0 THEN 0 ELSE md.LastEpoch + 1
             ceiling == IF md.LastEpoch # 0 /\ target > md.LastEpoch
                        THEN md.LastEpoch ELSE target
             vstart == IF md.LastValidatorEpoch = 0 THEN 0
                       ELSE md.LastValidatorEpoch + 1
         IN  /\ ( /\ pc[h] = "summarizeEpochs"
                  /\ pc'[h] = "summarizeBlocks"
                  /\ cfg.enabled[1]
                  /\ cfg.validatorEpochRetention # NoRetention
                  /\ M > 0
                  /\ target > start + M
                  /\ Last(stages'[h]).outcome = "ok" )
                => /\ md'.LastEpoch = start + M
                   /\ Last(stages'[h]).count = M + 1
             /\ ( /\ pc[h] = "summarizeValidators"
                  /\ pc'[h] = "getMetadata"
                  /\ cfg.enabled[3]
                  /\ cfg.validatorEpochRetention # NoRetention
                  /\ M > 0
                  /\ ceiling > vstart + M
                  /\ Last(stages'[h]).outcome = "ok" )
                => /\ md'.LastValidatorEpoch = vstart + M
                   /\ Last(stages'[h]).count = M + 1 ]_vars

\* The epoch stage, resuming at 0 and asked for more than M epochs, has
\* stopped at M; the validator stage, bound the same way, runs next.
C6_Witness ==
    \E h \in Handlers :
        LET M == cfg.maxDaysPerRun * epochsPerDay
        IN  /\ cfg.validatorEpochRetention # NoRetention
            /\ M > 0
            /\ pc[h] = "summarizeBlocks"
            /\ finalizedEpoch[h] - 1 > M
            /\ stages[h] = << Stage("epochs", M + 1, "ok") >>
            /\ md.LastEpoch = M

\* C7 - Early halt on insufficient data: when the per-epoch computation
\* reports insufficient data for epoch E, the epoch stage has summarized
\* exactly the epochs before E that it started with, lastEpoch is E - 1 if
\* E - 1 was computed and unchanged otherwise, and the stage returns success:
\* the coordinator goes on to the block stage and then the validator stage.
C7_EarlyHalt ==
    /\ [](\A h \in Handlers :
            ( /\ Len(stages[h]) >= 1
              /\ stages[h][1].outcome = "insufficient" )
            => /\ pc[h] = "exit" => Len(stages[h]) >= 2
               /\ pc[h] = "summarizeBlocks" <=> Len(stages[h]) = 1)
    /\ [][\A h \in Handlers :
            ( /\ pc[h] = "summarizeEpochs"
              /\ pc'[h] # pc[h]
              /\ Last(stages'[h]).outcome = "insufficient" )
            => LET start == IF md.LastEpoch = 0 THEN 0 ELSE md.LastEpoch + 1
                   E == start + Last(stages'[h]).count
               IN  /\ pc'[h] = "summarizeBlocks"
                   /\ result'[h] = result[h]
                   /\ md'.LastEpoch = IF E > start THEN E - 1 ELSE md.LastEpoch ]_vars

\* The epoch stage halted on insufficient data after some progress and the
\* block and validator stages have run after it.
C7_Witness ==
    \E h \in Handlers :
        /\ pc[h] = "getMetadata"
        /\ stages[h][1].stage = "epochs"
        /\ stages[h][1].outcome = "insufficient"
        /\ stages[h][1].count > 0
        /\ stages[h][2].count > 0
        /\ stages[h][3].count > 0

StageOrder == << "epochs", "blocks", "validators", "metadata", "days", "prune" >>

\* C8 - Fixed stage order with short-circuit: the stage calls of one pass
\* are an initial part of epoch, block, validator rollup, (the coordinator's
\* metadata read,) day aggregator, pruner, each made once; every call but the
\* last returned success, and after a stage error the call only returns.
C8_StageOrder ==
    \A h \in Handlers :
        /\ Len(stages[h]) <= Len(StageOrder)
        /\ \A i \in 1 .. Len(stages[h]) :
               /\ stages[h][i].stage = StageOrder[i]
               /\ i < Len(stages[h]) => stages[h][i].outcome # "error"
               /\ stages[h][i].outcome = "error" => pc[h] = "exit" /\ result[h] = "error"

\* The validator stage failed after two stages succeeded; the call is
\* about to return with no later stage run.
C8_Witness ==
    \E h \in Handlers :
        /\ pc[h] = "exit"
        /\ Len(stages[h]) = 3
        /\ stages[h][1].count > 0
        /\ stages[h][2].count > 0
        /\ stages[h][3].outcome = "error"

\* C9 - The epoch-processed signal is emitted only on full, error-free
\* completion: not after a stage error, not after a failed metadata read by
\* the coordinator, not for a trigger with finalizedEpoch 0, not for a
\* trigger that was turned away.
C9_SignalOnlyOnCompletion ==
    \A h \in Handlers :
        emitted[h] # {} =>
            /\ acquired[h]
            /\ finalizedEpoch[h] # 0
            /\ \A i \in 1 .. Len(stages[h]) :
                   stages[h][i].outcome \notin {"error", "failed"}

\* C10 - Gate release: the permits out are exactly those of the calls past
\* the gate, so the gate is free whenever no pass is executing; each such
\* call gives its permit back exactly once, when it returns, whatever its
\* result; and a trigger that arrives when no pass is executing gets the
\* gate.
C10_GateRelease ==
    /\ [](/\ activitySem = Cardinality({ h \in Handlers : acquired[h] })
          /\ \A h \in Handlers :
                 acquired[h] <=> (pc[h] # "idle" /\ result[h] # "dropped"))
    /\ [][\A h \in Handlers :
            /\ (pc[h] = "exit" /\ acquired[h] /\ pc'[h] # pc[h])
               => /\ activitySem' = activitySem - 1
                  /\ pc'[h] = "idle"
                  /\ ~acquired'[h]
            /\ (acquired[h] /\ pc[h] # "exit") => acquired'[h]
            /\ ( /\ pc[h] = "idle"
                 /\ pc'[h] # "idle"
                 /\ \A g \in Handlers : ~acquired[g] )
               => /\ pc'[h] = "checkEpoch"
                  /\ acquired'[h]
                  /\ activitySem' = 1 ]_vars

\* After a pass that made progress has ended, another caller holds the gate.
C10_Witness ==
    \E h \in Handlers :
        /\ acquired[h]
        /\ pc[h] = "checkEpoch"
        /\ md.LastValidatorEpoch > 0
        /\ md.LastValidatorDay # NotStarted
        /\ \A g \in Handlers \ {h} : pc[g] = "idle"

(* ---------------------- repeated, untroubled triggers ---------------- *)

\* The finalized epoch that every trigger of the catch-up runs carries.
CatchUpEpoch == 3

\* No stage call of the pass under way has failed or halted on missing data,
\* and the coordinator's metadata read succeeded.
NoFailure ==
    \A h \in Handlers :
        \A i \in 1 .. Len(stages[h]) : stages[h][i].outcome = "ok"

InitCatchUp == Init /\ cfg.enabled = << TRUE, TRUE, TRUE >>

\* Triggers with the same finalized epoch, each issued after the previous
\* pass has ended, with sufficient data and no error anywhere.
NextCatchUp ==
    /\ \/ OnFinalityUpdated(1, CatchUpEpoch)
       \/ CheckEpoch(1)
       \/ summarizeEpochs(1)
       \/ summarizeBlocks(1)
       \/ summarizeValidators(1)
       \/ getMetadata(1)
       \/ summarizeValidatorDays(1)
       \/ prune(1)
       \/ monitorEpochProcessed(1)
       \/ Exit(1)
    /\ NoFailure'

\* Triggers keep being issued and every call runs to its end.
SpecCatchUp == InitCatchUp /\ [][NextCatchUp]_vars /\ WF_vars(NextCatchUp)

CaughtUp ==
    /\ md.LastEpoch = CatchUpEpoch - 1
    /\ md.LastBlockEpoch = CatchUpEpoch - 1
    /\ md.LastValidatorEpoch = CatchUpEpoch - 1

\* C11 - Eventual catch-up: under repeated triggers with the same finalized
\* epoch F, no errors and sufficient data, lastEpoch, lastBlockEpoch and
\* lastValidatorEpoch eventually all equal F - 1, and once they do they stay
\* there under further triggers with the same F.
C11_EventualCatchUp ==
    /\ <>CaughtUp
    /\ [][CaughtUp => CaughtUp']_vars

(* --------------------------- the day aggregator ----------------------- *)

\* A step of the day aggregator that summarized at least one day.
DaysSummarized(h) ==
    /\ pc[h] = "summarizeValidatorDays"
    /\ pc'[h] # pc[h]
    /\ Last(stages'[h]).stage = "days"
    /\ Last(stages'[h]).count > 0

\* The first day a pass of the day aggregator takes up, read from the
\* metadata it starts with.
NextDay ==
    IF md.LastValidatorDay = NotStarted
    THEN StartOfDay(cfg.genesisTime)
    ELSE md.LastValidatorDay + SecondsPerDay

\* C12 - Day alignment: lastValidatorDay is always unset or a UTC midnight;
\* it changes only in a day aggregator pass, which summarizes consecutive
\* calendar days starting at the UTC midnight of the genesis day (first
\* pass) or at the day after lastValidatorDay (later passes); with genesis
\* 2020-12-01T12:00Z, lastValidatorDay unset and lastValidatorEpoch starting
\* at 2020-12-04T00:00Z a successful pass summarizes exactly 2020-12-01 and
\* 2020-12-02 and leaves lastValidatorDay at 2020-12-02.
C12_DayAlignment ==
    /\ [](\/ md.LastValidatorDay = NotStarted
          \/ /\ md.LastValidatorDay % SecondsPerDay = 0
             /\ md.LastValidatorDay >= StartOfDay(cfg.genesisTime))
    /\ [][\A h \in Handlers :
            /\ md'.LastValidatorDay # md.LastValidatorDay => \E g \in Handlers : DaysSummarized(g)
            /\ DaysSummarized(h)
               => md'.LastValidatorDay
                      = NextDay + (Last(stages'[h]).count - 1) * SecondsPerDay
            /\ ( /\ pc[h] = "summarizeValidatorDays"
                 /\ pc'[h] = "prune"
                 /\ cfg.genesisTime = 1606824000
                 /\ md.LastValidatorDay = NotStarted
                 /\ StartOfEpoch(md.LastValidatorEpoch) = 1606780800 + 3 * SecondsPerDay )
               => /\ Last(stages'[h]).count = 2
                  /\ md'.LastValidatorDay = 1606780800 + SecondsPerDay ]_vars

\* Genesis at noon of 2020-12-01, validator epochs up to the one starting at
\* 2020-12-04T00:00Z: the first pass of the day aggregator has summarized
\* two days and stands at 2020-12-02.
C12_Witness ==
    \E h \in Handlers :
        /\ pc[h] = "prune"
        /\ cfg.genesisTime = 1606824000
        /\ StartOfEpoch(md.LastValidatorEpoch) = 1606780800 + 3 * SecondsPerDay
        /\ Last(stages[h]) = Stage("days", 2, "ok")
        /\ md.LastValidatorDay = 1606780800 + SecondsPerDay

(* ------------------------ rollups and the pruner ---------------------- *)

\* C13 - Prune-after-rollup ordering: a pruner call is preceded, in the same
\* pass, by a day aggregator call that returned success; the pruner is never
\* reached in a pass whose day aggregator failed or did not run.
C13_PruneAfterRollup ==
    \A h \in Handlers :
        /\ pc[h] = "prune"
           => /\ Last(stages[h]).stage = "days"
              /\ Last(stages[h]).outcome = "ok"
        /\ \A i \in 1 .. Len(stages[h]) :
               stages[h][i].stage = "prune"
               => /\ i > 1
                  /\ stages[h][i - 1].stage = "days"
                  /\ stages[h][i - 1].outcome = "ok"

\* The pruner has deleted rows after a day aggregator pass that summarized
\* a day.
C13_Witness ==
    \E h \in Handlers :
        /\ pc[h] = "monitorEpochProcessed"
        /\ Len(stages[h]) = 6
        /\ stages[h][5].stage = "days"
        /\ stages[h][5].count > 0
        /\ stages[h][6].stage = "prune"
        /\ stages[h][6].count > 0

\* C14 - Periodic rollups switched off: when the flag the coordinator reads
\* is false, neither the day aggregator nor the pruner runs in the pass,
\* lastValidatorDay does not change and no validator-epoch row is deleted,
\* and after three successful rollup stages the pass still ends with the
\* signal for its finalized epoch.
C14_RollupsOff ==
    /\ [](\A h \in Handlers :
            ~md.PeriodicValidatorRollups
            => /\ pc[h] \notin {"summarizeValidatorDays", "prune"}
               /\ \A i \in 1 .. Len(stages[h]) :
                      stages[h][i].stage \notin {"days", "prune"})
    /\ [][\A h \in Handlers :
            ~md.PeriodicValidatorRollups
            => /\ md'.LastValidatorDay = md.LastValidatorDay
               /\ validatorEpochRows \subseteq validatorEpochRows'
               /\ ( /\ pc[h] = "getMetadata"
                    /\ pc'[h] # pc[h]
                    /\ Last(stages'[h]).outcome = "ok" )
                  => pc'[h] = "monitorEpochProcessed"
               /\ ( /\ pc[h] = "monitorEpochProcessed"
                    /\ pc'[h] # pc[h] )
                  => /\ emitted'[h] = {finalizedEpoch[h]}
                     /\ result'[h] = "complete" ]_vars

\* With the flag off a pass that summarized validator epochs has ended
\* complete, after the three rollup stages and the metadata read only.
C14_Witness ==
    \E h \in Handlers :
        /\ ~md.PeriodicValidatorRollups
        /\ pc[h] = "exit"
        /\ result[h] = "complete"
        /\ emitted[h] = {finalizedEpoch[h]}
        /\ Len(stages[h]) = 4
        /\ stages[h][4] = Stage("metadata", 0, "ok")
        /\ stages[h][3].count > 1
        /\ md.LastValidatorDay = NotStarted
        /\ Cardinality(validatorEpochRows) > 1

(* ----------------------- signal and resume points --------------------- *)

\* C15 - The signal vouches for the checkpoints: whenever the signal has
\* been emitted with value F, every enabled rollup stage's checkpoint has
\* reached F - 1; a pass cut short by the per-run clamp or by a halt on
\* missing data does not report F.
C15_SignalMeansCaughtUp ==
    \A h \in Handlers :
        \A F \in emitted[h] :
            /\ cfg.enabled[1] => md.LastEpoch >= F - 1
            /\ cfg.enabled[2] => md.LastBlockEpoch >= F - 1
            /\ cfg.enabled[3] => md.LastValidatorEpoch >= F - 1

\* C16 - Resumption point: a rollup stage starts at epoch 0 on its first run
\* and at one past its last completed epoch afterwards, so it never
\* summarizes again an epoch it has already summarized, not even when the
\* only epoch completed so far is epoch 0. Read off the validator stage,
\* whose output rows record which epochs it has summarized.
C16_ResumptionPoint ==
    [][\A h \in Handlers :
         ( /\ pc[h] = "summarizeValidators"
           /\ pc'[h] # pc[h]
           /\ Last(stages'[h]).count > 0 )
         => LET first == md'.LastValidatorEpoch - Last(stages'[h]).count + 1
            IN  /\ first = IF validatorEpochRows = {} /\ md.LastValidatorEpoch = 0
                           THEN 0
                           ELSE md.LastValidatorEpoch + 1
                /\ (first .. md'.LastValidatorEpoch) \cap validatorEpochRows = {} ]_vars

(* ------------------------- which days are taken ----------------------- *)

\* C17 - Day completeness: the day aggregator summarizes a UTC day D only
\* if D + 1 day <= StartOfEpoch(lastValidatorEpoch), and it summarizes
\* nothing unless StartOfEpoch(lastValidatorEpoch) is strictly more than one
\* day after the time of lastValidatorDay.
C17_DayCompleteness ==
    [][\A h \in Handlers :
         DaysSummarized(h)
         => /\ \A k \in 0 .. Last(stages'[h]).count - 1 :
                   NextDay + k * SecondsPerDay + SecondsPerDay
                       <= StartOfEpoch(md.LastValidatorEpoch)
            /\ md'.LastValidatorDay + SecondsPerDay <= StartOfEpoch(md.LastValidatorEpoch)
            /\ StartOfEpoch(md.LastValidatorEpoch) > md.LastValidatorDay + SecondsPerDay ]_vars

\* A later pass of the day aggregator has taken one more day, the last one
\* that ended before the start of lastValidatorEpoch.
C17_Witness ==
    \E h \in Handlers :
        /\ pc[h] = "prune"
        /\ Last(stages[h]) = Stage("days", 1, "ok")
        /\ md.LastValidatorDay > StartOfDay(cfg.genesisTime)
        /\ md.LastValidatorDay + 2 * SecondsPerDay > StartOfEpoch(md.LastValidatorEpoch)

\* The most days one pass can take within the model's epochs.
DayRange == 0 .. MaxFinalizedEpoch + MaxDataEpoch

\* A pass of the day aggregator that ran to its end.
DaysDone(h) ==
    /\ pc[h] = "summarizeValidatorDays"
    /\ pc'[h] = "prune"

\* C18 (as claimed) - Day range end: the days summarized by one pass are
\* exactly the UTC midnights D with startTime <= D < endTime, where endTime
\* is one day before the UTC midnight of the day containing the start of
\* lastValidatorEpoch, whether or not that start is on a UTC midnight.
C18_DayRangeEndsAtMidnight ==
    [][\A h \in Handlers :
         DaysDone(h)
         => \A k \in DayRange :
                k < Last(stages'[h]).count
                <=> NextDay + k * SecondsPerDay
                        < StartOfDay(StartOfEpoch(md.LastValidatorEpoch)) - SecondsPerDay ]_vars

\* C18 (amended) - Day range end: the days summarized by one pass are
\* exactly the UTC midnights D with startTime <= D < endTime, where endTime
\* is exactly one day before the start of lastValidatorEpoch, not rounded to
\* a midnight: the same days as claimed when that start is on a UTC
\* midnight, one day more when it is not.
C18_DayRangeEnd ==
    [][\A h \in Handlers :
         DaysDone(h)
         => LET epochTime == StartOfEpoch(md.LastValidatorEpoch)
                count == Last(stages'[h]).count
            IN  /\ \A k \in DayRange :
                       k < count <=> NextDay + k * SecondsPerDay < epochTime - SecondsPerDay
                /\ count > 0
                   => md'.LastValidatorDay = NextDay + (count - 1) * SecondsPerDay
                /\ ( /\ epochTime % SecondsPerDay # 0
                     /\ NextDay <= StartOfDay(epochTime) - SecondsPerDay )
                   => md'.LastValidatorDay = StartOfDay(epochTime) - SecondsPerDay ]_vars

\* lastValidatorEpoch starts at noon and the pass has taken the day before
\* the one holding that noon.
C18_Witness ==
    \E h \in Handlers :
        /\ pc[h] = "prune"
        /\ Last(stages[h]).stage = "days"
        /\ Last(stages[h]).count > 0
        /\ StartOfEpoch(md.LastValidatorEpoch) % SecondsPerDay # 0
        /\ md.LastValidatorDay
               = StartOfDay(StartOfEpoch(md.LastValidatorEpoch)) - SecondsPerDay

(* ---------------------- errors and the per-run limit ------------------ *)

\* The epoch a rollup stage resumes at, given its progress field.
Resume(last) == IF last = 0 THEN 0 ELSE last + 1

\* The progress field after n units from `first`, or `was` if n = 0.
Reached(was, first, n) == IF n > 0 THEN first + n - 1 ELSE was

\* C19 - Partial progress kept on error: when a stage fails at a unit X its
\* field stays at the last unit completed before X (unchanged if none), the
\* fields of the other stages keep their values - those reached in this
\* pass for the earlier stages, the old ones for the stages that did not
\* run - nothing is rolled back when the pass ends, and the next trigger
\* starts from the persisted values.
C19_PartialProgressKept ==
    [][\A h \in Handlers :
         /\ ( /\ pc'[h] # pc[h]
              /\ pc[h] \in {"summarizeEpochs", "summarizeBlocks", "summarizeValidators",
                            "summarizeValidatorDays", "prune"}
              /\ Last(stages'[h]).outcome = "error" )
            => LET stage == Last(stages'[h]).stage
                   n == Last(stages'[h]).count
               IN  /\ pc'[h] = "exit"
                   /\ md'.LastEpoch =
                          IF stage = "epochs"
                          THEN Reached(md.LastEpoch, Resume(md.LastEpoch), n)
                          ELSE md.LastEpoch
                   /\ md'.LastBlockEpoch =
                          IF stage = "blocks"
                          THEN Reached(md.LastBlockEpoch, Resume(md.LastBlockEpoch), n)
                          ELSE md.LastBlockEpoch
                   /\ md'.LastValidatorEpoch =
                          IF stage = "validators"
                          THEN Reached(md.LastValidatorEpoch,
                                       Resume(md.LastValidatorEpoch), n)
                          ELSE md.LastValidatorEpoch
                   /\ md'.LastValidatorDay =
                          IF stage = "days" /\ n > 0
                          THEN NextDay + (n - 1) * SecondsPerDay
                          ELSE md.LastValidatorDay
                   /\ stage = "prune" => validatorEpochRows' = validatorEpochRows
         /\ (result[h] = "error" /\ pc'[h] # pc[h])
            => /\ md' = md
               /\ validatorEpochRows' = validatorEpochRows
               /\ pc'[h] = "idle"
         /\ (pc[h] \in {"idle", "checkEpoch"} /\ pc'[h] # pc[h]) => md' = md ]_vars

\* The validator stage failed part-way after the epoch and block stages had
\* advanced in the same pass; the call is about to return.
C19_Witness ==
    \E h \in Handlers :
        /\ pc[h] = "exit"
        /\ result[h] = "error"
        /\ Len(stages[h]) = 3
        /\ stages[h][1].count > 1
        /\ stages[h][2].count > 1
        /\ stages[h][3].outcome = "error"
        /\ stages[h][3].count > 0
        /\ md.LastValidatorEpoch = stages[h][3].count - 1
        /\ md.LastValidatorEpoch < md.LastBlockEpoch
        /\ md.LastBlockEpoch = md.LastEpoch

\* C20 - Clamp coupling: without a retention policy (whatever maxDaysPerRun)
\* or with maxEpochsPerRun = 0, an epoch stage pass with sufficient data and
\* no error advances lastEpoch all the way to finalizedEpoch - 1; and the
\* block stage is never held back by the per-run limit in any configuration:
\* a pass without error advances lastBlockEpoch to min(summaryEpoch,
\* lastEpoch), or to summaryEpoch when lastEpoch is 0.
C20_ClampCoupling ==
    [][\A h \in Handlers :
         LET summaryEpoch == finalizedEpoch[h] - 1
             returnedOk == pc'[h] # pc[h] /\ Last(stages'[h]).outcome = "ok"
             ceiling == IF md.LastEpoch = 0 THEN summaryEpoch
                        ELSE Min(summaryEpoch, md.LastEpoch)
         IN  /\ ( /\ pc[h] = "summarizeEpochs"
                  /\ returnedOk
                  /\ \/ cfg.validatorEpochRetention = NoRetention
                     \/ cfg.maxDaysPerRun * epochsPerDay = 0
                  /\ summaryEpoch >= Resume(md.LastEpoch) )
                => /\ md'.LastEpoch = summaryEpoch
                   /\ Last(stages'[h]).count = summaryEpoch - Resume(md.LastEpoch) + 1
             /\ ( /\ pc[h] = "summarizeBlocks"
                  /\ returnedOk
                  /\ ceiling >= Resume(md.LastBlockEpoch) )
                => /\ md'.LastBlockEpoch = ceiling
                   /\ Last(stages'[h]).count = ceiling - Resume(md.LastBlockEpoch) + 1 ]_vars

\* No retention policy, a per-run limit of one day: the epoch stage went
\* further than that limit, up to finalizedEpoch - 1, and so did the block
\* stage.
C20_Witness ==
    \E h \in Handlers :
        /\ pc[h] = "summarizeValidators"
        /\ cfg.validatorEpochRetention = NoRetention
        /\ cfg.maxDaysPerRun > 0
        /\ stages[h][1] = Stage("epochs", finalizedEpoch[h], "ok")
        /\ stages[h][2] = Stage("blocks", finalizedEpoch[h], "ok")
        /\ finalizedEpoch[h] > cfg.maxDaysPerRun * epochsPerDay + 1
        /\ md.LastEpoch = finalizedEpoch[h] - 1
        /\ md.LastBlockEpoch = finalizedEpoch[h] - 1

\* Retention set and a per-run limit in force: the epoch stage stopped at
\* the limit while the block stage, resuming further back, passed it.
C20_BlockWitness ==
    \E h \in Handlers :
        /\ pc[h] = "summarizeValidators"
        /\ cfg.validatorEpochRetention # NoRetention
        /\ cfg.maxDaysPerRun > 0
        /\ stages[h][1].outcome = "ok"
        /\ stages[h][1].count = cfg.maxDaysPerRun * epochsPerDay + 1
        /\ stages[h][2].outcome = "ok"
        /\ stages[h][2].count > cfg.maxDaysPerRun * epochsPerDay + 1
        /\ md.LastBlockEpoch = md.LastEpoch

====
